---- MODULE Spec2Model ----
(***************************************************************************)
(* ekam: the process manager (src/src/Subprocess.cpp) and the ownership    *)
(* library (src/src/base/OwnedPtr.h) as state machines.                    *)
(*                                                                         *)
(* Spec      one Subprocess object, its caller, its child process, the     *)
(*           pipe-drain watcher and the exit-watch dispatcher.             *)
(* LiveSpec  the same object driven by a caller that follows the           *)
(*           protocol, with the fairness the liveness claim assumes.       *)
(* PtrSpec   SmartPtr / WeakPtr / OwnedPtr handles over refcount blocks.   *)
(***************************************************************************)
EXTENDS Integers, Sequences, FiniteSets

\* ------------------------------------------------------------------ bounds
MaxStarts == 2
MaxSpurious == 1
MaxArgs == 1
MaxExitCode == 1
NSmart == 2
NWeak == 1
MaxBlocks == 1
MaxElems == 2
MaxSlots == 2
NKeys == 2

\* ------------------------------------------------------- program constants
NoPid == -1
SIGKILL == 9
ExecFailStatus == 1

NOT_STARTED == "NOT_STARTED"
RUNNING == "RUNNING"
EXITED == "EXITED"
SIGNALED == "SIGNALED"

NULL == 0

ExitCodes == 0..MaxExitCode
SignalNumbers == {SIGKILL}
\* The constructor leaves exitStatusOrSignalNumber uninitialised. The field is
\* read by maybeCallFinalCallback only in a terminal state, which only done()
\* sets, together with the field. Until then it holds Indeterminate, a value
\* no notification carries, so that a read of it would show.
Indeterminate == MaxExitCode + SIGKILL + 1

VARIABLES
  \* --- fields of Subprocess
  state, pipeCount, pid, exitStatusOrSignalNumber,
  canceler, finalCallback,
  stdoutPipe, stderrPipe, stdoutAndStderrPipe,
  args, doPathLookup, executableName, diskRefs,
  \* --- the world around it
  destroyed,      \* "no" | "caller" (deleted by its owner) | "callback" (deleted by finalCallback.clear())
  dtorPath,       \* the destructor took the cancel / kill / waitpid path
  child,          \* "none" | "forked" | "program" | "zombie" | "reaped"
  childStatus,    \* <<tag, value>> the child terminated with
  watch,          \* "none" | "registered" | "delivered" | "cancelled"
  pipesOpen,      \* write ends handed to a child whose reader has not reported EOF yet
  \* --- history
  calls,          \* invocations of the completion callback, in order
  nullDeref,      \* finalCallback-> was evaluated on an empty handle
  delivered,      \* <<tag, value>> of the last exit notification the dispatcher delivered
  configured,     \* pipe bindings counted by the last successful start()
  refsAdded,      \* disk references obtained by addArgument(File*, usage) so far
  nStarts, nForkFails, nSpurious,
  \* --- ownership library
  sp,             \* SmartPtr variables: [live, ptr, rc]
  wp,             \* WeakPtr variables: [live, ptr, rc]
  op,             \* OwnedPtr variables: [live, ptr]
  blocks,         \* the Refcount blocks allocated so far: [strong, weak, freed]
  objs,           \* per object allocated so far: deleted 0 times, once, or 2 = more than once
  ub,             \* undefined behaviour: a deleted block was read or written, or an object deleted twice
  shared,         \* objects that were put under shared ownership
  released,       \* blocks on which Refcount::release succeeded
  \* --- owned containers
  els,            \* per element allocated so far: deleted 0 times, once, or 2 = more than once
  vec,            \* OwnedPtrVector::vec, a sequence of element pointers (NULL for an emptied slot)
  dq,             \* OwnedPtrDeque::q
  fq,             \* OwnedPtrQueue::q
  mp,             \* OwnedPtrMap::map, a function from the keys present to element pointers
  contLive,       \* which of the four containers has not been destroyed
  held,           \* elements in OwnedPtrs of the caller, handed out by the containers
  ret             \* <<"addIfNew", value>>: what the last OwnedPtrMap::addIfNew returned

subVars == <<state, pipeCount, pid, exitStatusOrSignalNumber, canceler, finalCallback,
             stdoutPipe, stderrPipe, stdoutAndStderrPipe,
             args, doPathLookup, executableName, diskRefs>>
envVars == <<destroyed, dtorPath, child, childStatus, watch, pipesOpen>>
histVars == <<calls, nullDeref, delivered, configured, refsAdded,
              nStarts, nForkFails, nSpurious>>
ptrVars == <<sp, wp, op, blocks, objs, ub, shared, released>>
contVars == <<els, vec, dq, fq, mp, contLive, held, ret>>
vars == <<subVars, envVars, histVars, ptrVars, contVars>>

Terminal == {EXITED, SIGNALED}
Bindings == (IF stdoutPipe THEN 1 ELSE 0) + (IF stderrPipe THEN 1 ELSE 0)
              + (IF stdoutAndStderrPipe THEN 1 ELSE 0)

\* ---------------------------------------------------------------- Subprocess

\* Subprocess::Subprocess()
SubInit ==
  /\ state = NOT_STARTED
  /\ pipeCount = 0
  /\ pid = NoPid
  /\ exitStatusOrSignalNumber = Indeterminate
  /\ canceler = FALSE
  /\ finalCallback = NULL
  /\ stdoutPipe = FALSE /\ stderrPipe = FALSE /\ stdoutAndStderrPipe = FALSE
  /\ args = <<>>
  /\ doPathLookup = FALSE
  /\ executableName = ""
  /\ diskRefs = 0
  /\ destroyed = "no"
  /\ dtorPath = FALSE
  /\ child = "none"
  /\ childStatus = <<"none", 0>>
  /\ watch = "none"
  /\ pipesOpen = 0
  /\ calls = <<>>
  /\ nullDeref = FALSE
  /\ delivered = <<"none", 0>>
  /\ configured = 0
  /\ refsAdded = 0
  /\ nStarts = 0 /\ nForkFails = 0 /\ nSpurious = 0

\* Subprocess::addArgument(const std::string&)
AddArgumentText ==
  /\ destroyed = "no"
  /\ Len(args) < MaxArgs
  /\ IF args = <<>>
       THEN executableName' = "text" /\ doPathLookup' = TRUE
       ELSE UNCHANGED <<executableName, doPathLookup>>
  /\ args' = Append(args, "text")
  /\ UNCHANGED <<state, pipeCount, pid, exitStatusOrSignalNumber, canceler, finalCallback,
                 stdoutPipe, stderrPipe, stdoutAndStderrPipe, diskRefs>>
  /\ UNCHANGED <<envVars, ptrVars, contVars>>
  /\ UNCHANGED <<calls, nullDeref, delivered, configured, refsAdded,
                 nStarts, nForkFails, nSpurious>>

\* Subprocess::addArgument(File*, File::Usage)
AddArgumentFile ==
  /\ destroyed = "no"
  /\ Len(args) < MaxArgs
  /\ IF args = <<>>
       THEN executableName' = "file" /\ doPathLookup' = FALSE
       ELSE UNCHANGED <<executableName, doPathLookup>>
  /\ args' = Append(args, "file")
  /\ diskRefs' = diskRefs + 1
  /\ refsAdded' = refsAdded + 1
  /\ UNCHANGED <<state, pipeCount, pid, exitStatusOrSignalNumber, canceler, finalCallback,
                 stdoutPipe, stderrPipe, stdoutAndStderrPipe>>
  /\ UNCHANGED <<envVars, ptrVars, contVars>>
  /\ UNCHANGED <<calls, nullDeref, delivered, configured,
                 nStarts, nForkFails, nSpurious>>

CaptureFrame ==
  /\ UNCHANGED <<state, pipeCount, pid, exitStatusOrSignalNumber, canceler, finalCallback,
                 args, doPathLookup, executableName, diskRefs>>
  /\ UNCHANGED <<envVars, ptrVars, contVars>>
  /\ UNCHANGED <<calls, nullDeref, delivered, configured, refsAdded,
                 nStarts, nForkFails, nSpurious>>

captureStdout_KeepsCombined ==
  /\ stdoutPipe' = TRUE
  /\ UNCHANGED <<stderrPipe, stdoutAndStderrPipe>>

\* Subprocess::captureStdout
captureStdout ==
  /\ stdoutPipe' = TRUE
  /\ stdoutAndStderrPipe' = FALSE
  /\ UNCHANGED stderrPipe

CaptureStdout ==
  /\ destroyed = "no"
  /\ captureStdout
  /\ CaptureFrame

\* Subprocess::captureStderr
captureStderr ==
  /\ stderrPipe' = TRUE
  /\ stdoutAndStderrPipe' = FALSE
  /\ UNCHANGED stdoutPipe

CaptureStderr ==
  /\ destroyed = "no"
  /\ captureStderr
  /\ CaptureFrame

\* Subprocess::captureStdoutAndStderr
captureStdoutAndStderr ==
  /\ stdoutAndStderrPipe' = TRUE
  /\ stdoutPipe' = FALSE
  /\ stderrPipe' = FALSE

CaptureStdoutAndStderr ==
  /\ destroyed = "no"
  /\ captureStdoutAndStderr
  /\ CaptureFrame

StartParent_CountsOnePipe ==
  /\ destroyed = "no"
  /\ nStarts + nForkFails < MaxStarts
  /\ canceler = FALSE
  /\ pid' = nStarts + 1
  /\ state' = RUNNING
  /\ pipeCount' = pipeCount + (IF Bindings > 0 THEN 1 ELSE 0)
  /\ stdoutPipe' = FALSE /\ stderrPipe' = FALSE /\ stdoutAndStderrPipe' = FALSE
  /\ finalCallback' = nStarts + 1
  /\ canceler' = TRUE
  /\ watch' = "registered"
  /\ child' = "forked"
  /\ childStatus' = <<"none", 0>>
  /\ pipesOpen' = pipesOpen + Bindings
  /\ configured' = Bindings
  /\ nStarts' = nStarts + 1
  /\ UNCHANGED <<exitStatusOrSignalNumber, args, doPathLookup, executableName, diskRefs>>
  /\ UNCHANGED <<destroyed, dtorPath, calls, nullDeref, delivered, refsAdded,
                 nForkFails, nSpurious, ptrVars, contVars>>

\* Subprocess::start, fork() > 0: the parent branch.
\* start() has no guard on state in the source. The model lets the caller
\* re-enter it only while no exit watch is outstanding (canceler empty): what
\* the dispatcher does with an overwritten, uncancelled canceler handle is
\* decided by EventManager, which is not among the sources.
StartParent ==
  /\ destroyed = "no"
  /\ nStarts + nForkFails < MaxStarts
  /\ canceler = FALSE
  /\ pid' = nStarts + 1
  /\ state' = RUNNING
  /\ pipeCount' = pipeCount + Bindings
  /\ stdoutPipe' = FALSE /\ stderrPipe' = FALSE /\ stdoutAndStderrPipe' = FALSE
  /\ finalCallback' = nStarts + 1
  /\ canceler' = TRUE
  /\ watch' = "registered"
  /\ child' = "forked"
  /\ childStatus' = <<"none", 0>>
  /\ pipesOpen' = pipesOpen + Bindings
  /\ configured' = Bindings
  /\ nStarts' = nStarts + 1
  /\ UNCHANGED <<exitStatusOrSignalNumber, args, doPathLookup, executableName, diskRefs>>
  /\ UNCHANGED <<destroyed, dtorPath, calls, nullDeref, delivered, refsAdded,
                 nForkFails, nSpurious, ptrVars, contVars>>

StartForkFails_SetsRunning ==
  /\ destroyed = "no"
  /\ nStarts + nForkFails < MaxStarts
  /\ pid' = NoPid
  /\ state' = RUNNING
  /\ nForkFails' = nForkFails + 1
  /\ UNCHANGED <<pipeCount, exitStatusOrSignalNumber, canceler, finalCallback,
                 stdoutPipe, stderrPipe, stdoutAndStderrPipe,
                 args, doPathLookup, executableName, diskRefs>>
  /\ UNCHANGED <<envVars, ptrVars, contVars>>
  /\ UNCHANGED <<calls, nullDeref, delivered, configured, refsAdded, nStarts, nSpurious>>

\* Subprocess::start, fork() < 0: pid is assigned, then OsError is thrown.
\* Nothing of the dispatcher is involved, so this branch is open in every
\* state, RUNNING included: pid = fork() overwrites the pid of a running child.
StartForkFails ==
  /\ destroyed = "no"
  /\ nStarts + nForkFails < MaxStarts
  /\ pid' = NoPid
  /\ nForkFails' = nForkFails + 1
  /\ UNCHANGED <<state, pipeCount, exitStatusOrSignalNumber, canceler, finalCallback,
                 stdoutPipe, stderrPipe, stdoutAndStderrPipe,
                 args, doPathLookup, executableName, diskRefs>>
  /\ UNCHANGED <<envVars, ptrVars, contVars>>
  /\ UNCHANGED <<calls, nullDeref, delivered, configured, refsAdded, nStarts, nSpurious>>

\* Subprocess::start, fork() == 0: the child branch, in the child process.
ChildFrame ==
  /\ UNCHANGED <<subVars, histVars, ptrVars, contVars>>
  /\ UNCHANGED <<destroyed, dtorPath, watch, pipesOpen>>

\* execvp / execv succeeds: the child becomes the target program.
ChildExec ==
  /\ child = "forked"
  /\ args # <<>>
  /\ child' = "program"
  /\ UNCHANGED childStatus
  /\ ChildFrame

ChildExecFails_ExitsZero ==
  /\ child = "forked"
  /\ child' = "zombie"
  /\ childStatus' = <<EXITED, 0>>
  /\ ChildFrame

\* execvp / execv returns: perror("exec"); exit(1).
ChildExecFails ==
  /\ child = "forked"
  /\ child' = "zombie"
  /\ childStatus' = <<EXITED, ExecFailStatus>>
  /\ ChildFrame

\* The target program calls exit(code) or returns from main.
ChildExits(code) ==
  /\ child = "program"
  /\ child' = "zombie"
  /\ childStatus' = <<EXITED, code>>
  /\ ChildFrame

\* The child is terminated by a signal.
ChildSignaled(sig) ==
  /\ child \in {"forked", "program"}
  /\ child' = "zombie"
  /\ childStatus' = <<SIGNALED, sig>>
  /\ ChildFrame

\* finalCallback->exited(v) / finalCallback->signaled(v), then
\* finalCallback.clear(), which may delete the Subprocess ("May delete this"):
\* ~Subprocess then runs with the canceler as the handler left it (c).
InvokeFinalCallback(tag, by, pc, st, val, c) ==
  /\ IF finalCallback = NULL
       THEN nullDeref' = TRUE /\ calls' = calls
       ELSE /\ nullDeref' = nullDeref
            /\ calls' = Append(calls, [tag |-> tag, value |-> val, by |-> by,
                                        cb |-> finalCallback, pipeCount |-> pc, state |-> st])
  /\ finalCallback' = NULL
  /\ \E deleted \in BOOLEAN :
       /\ destroyed' = IF deleted THEN "callback" ELSE destroyed
       /\ dtorPath' = (dtorPath \/ (deleted /\ c))

maybeCallFinalCallback_NoPipeCheck(by, pc, st, val, c) ==
  IF st = EXITED THEN InvokeFinalCallback("exited", by, pc, st, val, c)
  ELSE IF st = SIGNALED THEN InvokeFinalCallback("signaled", by, pc, st, val, c)
  ELSE UNCHANGED <<finalCallback, calls, nullDeref, destroyed, dtorPath>>

maybeCallFinalCallback_NoStateCheck(by, pc, st, val, c) ==
  IF pc = 0 THEN InvokeFinalCallback("exited", by, pc, st, val, c)
  ELSE UNCHANGED <<finalCallback, calls, nullDeref, destroyed, dtorPath>>

maybeCallFinalCallback_NotOnLastPipe(by, pc, st, val, c) ==
  IF pc = 0 /\ by = "done"
    THEN IF st = EXITED THEN InvokeFinalCallback("exited", by, pc, st, val, c)
         ELSE IF st = SIGNALED THEN InvokeFinalCallback("signaled", by, pc, st, val, c)
         ELSE UNCHANGED <<finalCallback, calls, nullDeref, destroyed, dtorPath>>
    ELSE UNCHANGED <<finalCallback, calls, nullDeref, destroyed, dtorPath>>

maybeCallFinalCallback_AlwaysExited(by, pc, st, val, c) ==
  IF pc = 0 /\ st \in {EXITED, SIGNALED}
    THEN InvokeFinalCallback("exited", by, pc, st, val, c)
    ELSE UNCHANGED <<finalCallback, calls, nullDeref, destroyed, dtorPath>>

maybeCallFinalCallback_FiresWhenNonPositive(by, pc, st, val, c) ==
  IF pc <= 0
    THEN IF st = EXITED THEN InvokeFinalCallback("exited", by, pc, st, val, c)
         ELSE IF st = SIGNALED THEN InvokeFinalCallback("signaled", by, pc, st, val, c)
         ELSE UNCHANGED <<finalCallback, calls, nullDeref, destroyed, dtorPath>>
    ELSE UNCHANGED <<finalCallback, calls, nullDeref, destroyed, dtorPath>>

\* Subprocess::maybeCallFinalCallback, on the fields as the caller left them:
\* pc = pipeCount, st = state, val = exitStatusOrSignalNumber, c = canceler.
maybeCallFinalCallback(by, pc, st, val, c) ==
  IF pc = 0
    THEN IF st = EXITED THEN InvokeFinalCallback("exited", by, pc, st, val, c)
         ELSE IF st = SIGNALED THEN InvokeFinalCallback("signaled", by, pc, st, val, c)
         ELSE UNCHANGED <<finalCallback, calls, nullDeref, destroyed, dtorPath>>
    ELSE UNCHANGED <<finalCallback, calls, nullDeref, destroyed, dtorPath>>

\* Subprocess::pipeDone
pipeDone ==
  /\ pipeCount' = pipeCount - 1
  /\ maybeCallFinalCallback("pipeDone", pipeCount - 1, state, exitStatusOrSignalNumber, canceler)
  \* a Subprocess deleted by the release runs ~Subprocess: cancel, kill, waitpid
  /\ IF destroyed' = "callback" /\ canceler
       THEN /\ watch' = "cancelled"
            /\ child' = IF child = "none" THEN "none" ELSE "reaped"
            /\ childStatus' = IF child \in {"forked", "program"}
                                THEN <<SIGNALED, SIGKILL>> ELSE childStatus
       ELSE UNCHANGED <<watch, child, childStatus>>
  /\ UNCHANGED <<state, pid, exitStatusOrSignalNumber, canceler,
                 stdoutPipe, stderrPipe, stdoutAndStderrPipe,
                 args, doPathLookup, executableName, diskRefs>>
  /\ UNCHANGED <<delivered, configured, refsAdded, nStarts, nForkFails, ptrVars, contVars>>

\* The pipe-drain watcher reports EOF of one configured pipe.
PipeEOF ==
  /\ destroyed = "no"
  /\ pipesOpen > 0
  /\ pipesOpen' = pipesOpen - 1
  /\ pipeDone
  /\ UNCHANGED nSpurious

\* pipeDone() called although no configured pipe is left to report.
SpuriousPipeDone ==
  /\ destroyed = "no"
  /\ nSpurious < MaxSpurious
  /\ nSpurious' = nSpurious + 1
  /\ pipeDone
  /\ UNCHANGED pipesOpen

done_KeepsCanceler(st, val) ==
  /\ state' = st
  /\ exitStatusOrSignalNumber' = val
  /\ pid' = NoPid
  /\ diskRefs' = 0
  /\ maybeCallFinalCallback("done", pipeCount, st, val, canceler)
  /\ UNCHANGED <<pipeCount, canceler, stdoutPipe, stderrPipe, stdoutAndStderrPipe,
                 args, doPathLookup, executableName>>

done_NoCompletionCheck(st, val) ==
  /\ state' = st
  /\ exitStatusOrSignalNumber' = val
  /\ canceler' = FALSE
  /\ pid' = NoPid
  /\ diskRefs' = 0
  /\ UNCHANGED <<finalCallback, calls, nullDeref, destroyed, dtorPath>>
  /\ UNCHANGED <<pipeCount, stdoutPipe, stderrPipe, stdoutAndStderrPipe,
                 args, doPathLookup, executableName>>

done_ReleasesCallbackFirst(st, val) ==
  /\ state' = st
  /\ exitStatusOrSignalNumber' = val
  /\ maybeCallFinalCallback("done", pipeCount, st, val, canceler)
  /\ canceler' = FALSE
  /\ pid' = NoPid
  /\ diskRefs' = 0
  /\ UNCHANGED <<pipeCount, stdoutPipe, stderrPipe, stdoutAndStderrPipe,
                 args, doPathLookup, executableName>>

\* Subprocess::done
done(st, val) ==
  /\ state' = st
  /\ exitStatusOrSignalNumber' = val
  /\ canceler' = FALSE
  /\ pid' = NoPid
  /\ diskRefs' = 0
  /\ maybeCallFinalCallback("done", pipeCount, st, val, FALSE)
  /\ UNCHANGED <<pipeCount, stdoutPipe, stderrPipe, stdoutAndStderrPipe,
                 args, doPathLookup, executableName>>

\* The dispatcher reaps the terminated child and runs the registered
\* CallbackWrapper: exited(code) or signaled(number), once.
ExitNotify ==
  /\ watch = "registered"
  /\ child = "zombie"
  /\ watch' = "delivered"
  /\ child' = "reaped"
  /\ delivered' = childStatus
  /\ done(childStatus[1], childStatus[2])
  /\ UNCHANGED <<childStatus, pipesOpen, configured, refsAdded,
                 nStarts, nForkFails, nSpurious, ptrVars, contVars>>

Destructor_NoReap ==
  /\ destroyed' = "caller"
  /\ IF canceler
       THEN /\ watch' = "cancelled"
            /\ dtorPath' = TRUE
            /\ UNCHANGED <<child, childStatus>>
       ELSE UNCHANGED <<watch, child, childStatus, dtorPath>>
  /\ canceler' = FALSE
  /\ finalCallback' = NULL
  /\ diskRefs' = 0
  /\ stdoutPipe' = FALSE /\ stderrPipe' = FALSE /\ stdoutAndStderrPipe' = FALSE

\* Subprocess::~Subprocess, then the destruction of the members.
\* kill(pid, SIGKILL) with pid = -1 signals every process the caller may
\* signal, the child among them; waitpid(pid, ...) with pid = -1 returns for
\* any one child of the caller, which need not be this one.
Destructor ==
  /\ destroyed' = "caller"
  /\ IF canceler
       THEN /\ watch' = "cancelled"
            /\ child' \in IF child = "none" THEN {"none"}
                          ELSE IF pid = NoPid THEN {"reaped", "zombie"}
                          ELSE {"reaped"}
            /\ childStatus' = IF child \in {"forked", "program"}
                                THEN <<SIGNALED, SIGKILL>> ELSE childStatus
            /\ dtorPath' = TRUE
       ELSE UNCHANGED <<watch, child, childStatus, dtorPath>>
  /\ canceler' = FALSE
  /\ finalCallback' = NULL
  /\ diskRefs' = 0
  /\ stdoutPipe' = FALSE /\ stderrPipe' = FALSE /\ stdoutAndStderrPipe' = FALSE

\* The owner deletes the Subprocess.
Destroy ==
  /\ destroyed = "no"
  /\ Destructor
  /\ UNCHANGED <<state, pipeCount, pid, exitStatusOrSignalNumber,
                 args, doPathLookup, executableName>>
  /\ UNCHANGED <<pipesOpen, calls, nullDeref, delivered, configured, refsAdded,
                 nStarts, nForkFails, nSpurious, ptrVars, contVars>>

\* ---------------------------------------------------------- ownership library

SmartIds == 1..NSmart
WeakIds == 1..NWeak
\* The ownership model follows one object T through its handles: it is created
\* once, into the one OwnedPtr variable, and every SmartPtr and WeakPtr is a
\* handle to it or empty.
OwnedIds == {1}

NullH == [ptr |-> NULL, rc |-> NULL]
Dead == [live |-> FALSE, ptr |-> NULL, rc |-> NULL]
DeadOwned == [live |-> FALSE, ptr |-> NULL]
Live(h) == [live |-> TRUE, ptr |-> h.ptr, rc |-> h.rc]

PtrInit ==
  /\ sp = [s \in SmartIds |-> Dead]
  /\ wp = [w \in WeakIds |-> Dead]
  /\ op = [o \in OwnedIds |-> DeadOwned]
  /\ blocks = <<>>
  /\ objs = <<>>
  /\ ub = FALSE
  /\ shared = {}
  /\ released = {}

\* The heap the handle operations act on.
Mem == [blocks |-> blocks, objs |-> objs, ub |-> ub]
SetMem(M) == blocks' = M.blocks /\ objs' = M.objs /\ ub' = M.ub

Freed(M, r) == r # NULL /\ M.blocks[r].freed
\* A read or write of a deleted block: the store lands in freed memory and the
\* value read is whatever the memory holds, so every test on it can go either
\* way (the ...Returns sets below).
Touch(M, r) == IF Freed(M, r) THEN [M EXCEPT !.ub = TRUE] ELSE M

\* deleteEnsuringCompleteType: delete ptr (delete NULL does nothing).
\* Deleting an object a second time is undefined behaviour as well.
deleteEnsuringCompleteType(M, p) ==
  IF p = NULL THEN M
  ELSE IF M.objs[p] = 0 THEN [M EXCEPT !.objs[p] = 1]
  ELSE [M EXCEPT !.objs[p] = 2, !.ub = TRUE]

\* Refcount::Refcount(): strong(1), weak(0); the new block is the last one
Refcount_new(M) ==
  [M EXCEPT !.blocks = Append(@, [strong |-> 1, weak |-> 0, freed |-> FALSE])]

\* Refcount::inc
Refcount_inc(M, r) ==
  IF r = NULL THEN M
  ELSE IF Freed(M, r) THEN Touch(M, r)
  ELSE [M EXCEPT !.blocks[r].strong = @ + 1]

Refcount_decReturns_OffByOne(M, r) ==
  IF r = NULL THEN {FALSE}
  ELSE IF Freed(M, r) THEN BOOLEAN
  ELSE {M.blocks[r].strong - 1 = 1}

\* Refcount::dec, the values it can return
Refcount_decReturns(M, r) ==
  IF r = NULL THEN {FALSE}
  ELSE IF Freed(M, r) THEN BOOLEAN
  ELSE {M.blocks[r].strong - 1 = 0}

\* Refcount::dec, its effect on the heap
Refcount_dec(M, r) ==
  IF r = NULL THEN M
  ELSE IF Freed(M, r) THEN Touch(M, r)
  ELSE LET s == M.blocks[r].strong - 1
       IN [M EXCEPT !.blocks[r].strong = s,
                    !.blocks[r].freed = (s = 0 /\ M.blocks[r].weak = 0)]

\* Refcount::incWeak
Refcount_incWeak(M, r) ==
  IF r = NULL THEN M
  ELSE IF Freed(M, r) THEN Touch(M, r)
  ELSE [M EXCEPT !.blocks[r].weak = @ + 1]

\* Refcount::decWeak
Refcount_decWeak(M, r) ==
  IF r = NULL THEN M
  ELSE IF Freed(M, r) THEN Touch(M, r)
  ELSE LET w == M.blocks[r].weak - 1
       IN [M EXCEPT !.blocks[r].weak = w,
                    !.blocks[r].freed = (w = 0 /\ M.blocks[r].strong = 0)]

Refcount_releaseReturns_AnyHolders(M, r) ==
  IF r = NULL THEN {FALSE}
  ELSE IF Freed(M, r) THEN BOOLEAN
  ELSE {M.blocks[r].strong >= 1}

\* Refcount::release, the values it can return
Refcount_releaseReturns(M, r) ==
  IF r = NULL THEN {FALSE}
  ELSE IF Freed(M, r) THEN BOOLEAN
  ELSE {M.blocks[r].strong = 1}

\* Refcount::release, its effect on the heap when it returns ok
Refcount_release(M, r, ok) ==
  IF ok THEN Refcount_dec(M, r) ELSE Touch(M, r)

Refcount_isLiveReturns_Always(M, r) ==
  IF r = NULL THEN {FALSE} ELSE {TRUE}

\* Refcount::isLive, the values it can return
Refcount_isLiveReturns(M, r) ==
  IF r = NULL THEN {FALSE}
  ELSE IF Freed(M, r) THEN BOOLEAN
  ELSE {M.blocks[r].strong > 0}

\* SmartPtr::~SmartPtr on handle h, dec returning res
SmartPtr_dtor(M, h, res) ==
  IF res THEN deleteEnsuringCompleteType(Refcount_dec(M, h.rc), h.ptr)
         ELSE Refcount_dec(M, h.rc)

\* SmartPtr::reset(T*, Refcount*) on handle h: the values dec(oldRefcount) can return
SmartPtr_resetReturns(M, h, newRefcount) ==
  Refcount_decReturns(Refcount_inc(M, newRefcount), h.rc)

\* SmartPtr::reset(T*, Refcount*) on handle h, its effect on the heap
SmartPtr_reset(M, h, newRefcount, res) ==
  LET M1 == Refcount_inc(M, newRefcount)
      M2 == Refcount_dec(M1, h.rc)
  IN IF res THEN deleteEnsuringCompleteType(M2, h.ptr) ELSE M2

\* SmartPtr::reset(T*) on handle h: a new block for a non-null value, the
\* two-argument reset, then dec of the new refcount
SmartPtr_resetOwned(M, h, newValue, res) ==
  LET M0 == IF newValue = NULL THEN M ELSE Refcount_new(M)
      newRefcount == IF newValue = NULL THEN NULL ELSE Len(M0.blocks)
      M1 == SmartPtr_reset(M0, h, newRefcount, res)
  IN [mem |-> Refcount_dec(M1, newRefcount),
      h |-> [ptr |-> newValue, rc |-> newRefcount]]

\* live SmartPtr variables that point at object p
Holders(p) == Cardinality({s \in SmartIds : sp[s].live /\ sp[s].ptr = p})

SubFrame == UNCHANGED <<subVars, envVars, histVars, contVars>>

\* Once the program has run into undefined behaviour its further behaviour is
\* not defined by the source: the model records the step, with every outcome
\* of the tests it made on freed memory, and follows the run no further.
Defined == ~ub

\* OwnedPtr::OwnedPtr()
OwnedNew(o) ==
  /\ Defined
  /\ ~op[o].live
  /\ op' = [op EXCEPT ![o] = [live |-> TRUE, ptr |-> NULL]]
  /\ UNCHANGED <<sp, wp, blocks, objs, ub, shared, released>>
  /\ SubFrame

\* newOwned<T>(): the object, in a new OwnedPtr
OwnedNewObject(o) ==
  /\ Defined
  /\ ~op[o].live
  /\ objs = <<>>
  /\ objs' = Append(objs, 0)
  /\ op' = [op EXCEPT ![o] = [live |-> TRUE, ptr |-> Len(objs) + 1]]
  /\ UNCHANGED <<sp, wp, blocks, ub, shared, released>>
  /\ SubFrame

\* OwnedPtr::~OwnedPtr
OwnedDestroy(o) ==
  /\ Defined
  /\ op[o].live
  /\ SetMem(deleteEnsuringCompleteType(Mem, op[o].ptr))
  /\ op' = [op EXCEPT ![o] = DeadOwned]
  /\ UNCHANGED <<sp, wp, shared, released>>
  /\ SubFrame

\* OwnedPtr::clear: reset(NULL)
OwnedClear(o) ==
  /\ Defined
  /\ op[o].live
  /\ op[o].ptr # NULL
  /\ SetMem(deleteEnsuringCompleteType(Mem, op[o].ptr))
  /\ op' = [op EXCEPT ![o].ptr = NULL]
  /\ UNCHANGED <<sp, wp, shared, released>>
  /\ SubFrame

\* SmartPtr::SmartPtr()
SmartNew(s) ==
  /\ Defined
  /\ ~sp[s].live
  /\ sp' = [sp EXCEPT ![s] = Live(NullH)]
  /\ UNCHANGED <<wp, op, blocks, objs, ub, shared, released>>
  /\ SubFrame

\* SmartPtr::SmartPtr(OwnedPtr<U>&&)
SmartFromOwned(s, o) ==
  /\ Defined
  /\ ~sp[s].live
  /\ op[o].live
  /\ op[o].ptr # NULL => Len(blocks) < MaxBlocks
  /\ LET p == op[o].ptr
         M == IF p = NULL THEN Mem ELSE Refcount_new(Mem)
     IN /\ SetMem(M)
        /\ sp' = [sp EXCEPT ![s] = Live([ptr |-> p,
                                          rc |-> IF p = NULL THEN NULL ELSE Len(M.blocks)])]
        /\ shared' = IF p = NULL THEN shared ELSE shared \cup {p}
  /\ op' = [op EXCEPT ![o].ptr = NULL]
  /\ UNCHANGED <<wp, released>>
  /\ SubFrame

SmartPtr_copy_NoInc(M, other) == M

\* SmartPtr::SmartPtr(const SmartPtr&), its effect on the heap
SmartPtr_copy(M, other) == Refcount_inc(M, other.rc)

SmartCopy(s, t) ==
  /\ Defined
  /\ ~sp[s].live
  /\ sp[t].live
  /\ SetMem(SmartPtr_copy(Mem, sp[t]))
  /\ sp' = [sp EXCEPT ![s] = sp[t]]
  /\ UNCHANGED <<wp, op, shared, released>>
  /\ SubFrame

\* SmartPtr::SmartPtr(SmartPtr&&)
SmartMove(s, t) ==
  /\ Defined
  /\ ~sp[s].live
  /\ sp[t].live
  /\ sp' = [sp EXCEPT ![s] = sp[t], ![t] = Live(NullH)]
  /\ UNCHANGED <<wp, op, blocks, objs, ub, shared, released>>
  /\ SubFrame

\* SmartPtr::operator=(const SmartPtr&), s = t included when s is t
SmartAssign(s, t) ==
  /\ Defined
  /\ sp[s].live
  /\ sp[t].live
  /\ \E res \in SmartPtr_resetReturns(Mem, sp[s], sp[t].rc) :
       SetMem(SmartPtr_reset(Mem, sp[s], sp[t].rc, res))
  /\ sp' = [sp EXCEPT ![s] = sp[t]]
  /\ UNCHANGED <<wp, op, shared, released>>
  /\ SubFrame

\* SmartPtr::operator=(SmartPtr&&), s = move(t) included when s is t
SmartMoveAssign(s, t) ==
  /\ Defined
  /\ sp[s].live
  /\ sp[t].live
  /\ LET temp == [ptr |-> sp[t].ptr, rc |-> sp[t].rc]
         sp1 == [sp EXCEPT ![t] = Live(NullH)]
     IN /\ \E res \in SmartPtr_resetReturns(Mem, sp1[s], NULL) :
             SetMem(SmartPtr_reset(Mem, sp1[s], NULL, res))
        /\ sp' = [sp1 EXCEPT ![s] = Live(temp)]
  /\ UNCHANGED <<wp, op, shared, released>>
  /\ SubFrame

\* SmartPtr::operator=(OwnedPtr<U>&&)
SmartAssignOwned(s, o) ==
  /\ Defined
  /\ sp[s].live
  /\ op[o].live
  /\ op[o].ptr # NULL => Len(blocks) < MaxBlocks
  /\ \E res \in SmartPtr_resetReturns(Mem, sp[s], NULL) :
       LET r == SmartPtr_resetOwned(Mem, sp[s], op[o].ptr, res)
       IN /\ SetMem(r.mem)
          /\ sp' = [sp EXCEPT ![s] = Live(r.h)]
  /\ shared' = IF op[o].ptr = NULL THEN shared ELSE shared \cup {op[o].ptr}
  /\ op' = [op EXCEPT ![o].ptr = NULL]
  /\ UNCHANGED <<wp, released>>
  /\ SubFrame

SmartPtr_release_ClearsRefcount(M, h, out, ok) ==
  IF ok
    THEN [mem |-> deleteEnsuringCompleteType(Refcount_release(M, h.rc, TRUE), out.ptr),
          h |-> [ptr |-> NULL, rc |-> NULL],
          out |-> [ptr |-> h.ptr]]
    ELSE [mem |-> Refcount_release(M, h.rc, FALSE), h |-> h, out |-> out]

\* SmartPtr::release(OwnedPtr<U>* other) on handle h, Refcount::release
\* returning ok: other->reset(ptr); ptr = NULL. The refcount field stays.
SmartPtr_release(M, h, out, ok) ==
  IF ok
    THEN [mem |-> deleteEnsuringCompleteType(Refcount_release(M, h.rc, TRUE), out.ptr),
          h |-> [ptr |-> NULL, rc |-> h.rc],
          out |-> [ptr |-> h.ptr]]
    ELSE [mem |-> Refcount_release(M, h.rc, FALSE), h |-> h, out |-> out]

SmartRelease(s, o) ==
  /\ Defined
  /\ sp[s].live
  /\ op[o].live
  /\ \E ok \in Refcount_releaseReturns(Mem, sp[s].rc) :
       LET r == SmartPtr_release(Mem, [ptr |-> sp[s].ptr, rc |-> sp[s].rc],
                                 [ptr |-> op[o].ptr], ok)
       IN /\ SetMem(r.mem)
          /\ sp' = [sp EXCEPT ![s] = Live(r.h)]
          /\ op' = [op EXCEPT ![o].ptr = r.out.ptr]
          /\ released' = IF ok THEN released \cup {sp[s].rc} ELSE released
  /\ UNCHANGED <<wp, shared>>
  /\ SubFrame

\* SmartPtr::clear: reset(NULL)
SmartClear(s) ==
  /\ Defined
  /\ sp[s].live
  /\ sp[s] # Live(NullH)
  /\ \E res \in SmartPtr_resetReturns(Mem, sp[s], NULL) :
       LET r == SmartPtr_resetOwned(Mem, sp[s], NULL, res)
       IN /\ SetMem(r.mem)
          /\ sp' = [sp EXCEPT ![s] = Live(r.h)]
  /\ UNCHANGED <<wp, op, shared, released>>
  /\ SubFrame

\* SmartPtr::~SmartPtr
SmartDestroy(s) ==
  /\ Defined
  /\ sp[s].live
  /\ \E res \in Refcount_decReturns(Mem, sp[s].rc) :
       SetMem(SmartPtr_dtor(Mem, sp[s], res))
  /\ sp' = [sp EXCEPT ![s] = Dead]
  /\ UNCHANGED <<wp, op, shared, released>>
  /\ SubFrame

\* WeakPtr::WeakPtr()
WeakNew(w) ==
  /\ Defined
  /\ ~wp[w].live
  /\ wp' = [wp EXCEPT ![w] = Live(NullH)]
  /\ UNCHANGED <<sp, op, blocks, objs, ub, shared, released>>
  /\ SubFrame

\* the handles a WeakPtr can be constructed from
LiveHandles ==
  {[ptr |-> sp[s].ptr, rc |-> sp[s].rc] : s \in {t \in SmartIds : sp[t].live}}
    \cup {[ptr |-> wp[v].ptr, rc |-> wp[v].rc] : v \in {u \in WeakIds : wp[u].live}}

\* WeakPtr::WeakPtr(const SmartPtr<T>&) and WeakPtr::WeakPtr(const WeakPtr&):
\* ptr(other.ptr), refcount(other.refcount), incWeak(refcount)
WeakFrom(w) ==
  /\ Defined
  /\ ~wp[w].live
  /\ \E other \in LiveHandles :
       /\ SetMem(Refcount_incWeak(Mem, other.rc))
       /\ wp' = [wp EXCEPT ![w] = Live(other)]
  /\ UNCHANGED <<sp, op, shared, released>>
  /\ SubFrame

\* WeakPtr::operator=(const WeakPtr&) and operator=(const SmartPtr<U>&) on
\* handle h: incWeak(refcount), then decWeak(oldRefcount)
WeakPtr_assign(M, h, other) ==
  Refcount_decWeak(Refcount_incWeak(M, other.rc), h.rc)

\* WeakPtr::operator=(const WeakPtr&), w = v included when w is v
WeakAssign(w, v) ==
  /\ Defined
  /\ wp[w].live
  /\ wp[v].live
  /\ SetMem(WeakPtr_assign(Mem, wp[w], wp[v]))
  /\ wp' = [wp EXCEPT ![w] = wp[v]]
  /\ UNCHANGED <<sp, op, shared, released>>
  /\ SubFrame

\* WeakPtr::operator=(const SmartPtr<U>&)
WeakAssignSmart(w, s) ==
  /\ Defined
  /\ wp[w].live
  /\ sp[s].live
  /\ SetMem(WeakPtr_assign(Mem, wp[w], sp[s]))
  /\ wp' = [wp EXCEPT ![w] = sp[s]]
  /\ UNCHANGED <<sp, op, shared, released>>
  /\ SubFrame

\* WeakPtr::operator=(std::nullptr_t)
WeakAssignNull(w) ==
  /\ Defined
  /\ wp[w].live
  /\ wp[w] # Live(NullH)
  /\ SetMem(Refcount_decWeak(Mem, wp[w].rc))
  /\ wp' = [wp EXCEPT ![w] = Live(NullH)]
  /\ UNCHANGED <<sp, op, shared, released>>
  /\ SubFrame

\* WeakPtr::~WeakPtr
WeakDestroy(w) ==
  /\ Defined
  /\ wp[w].live
  /\ SetMem(Refcount_decWeak(Mem, wp[w].rc))
  /\ wp' = [wp EXCEPT ![w] = Dead]
  /\ UNCHANGED <<sp, op, shared, released>>
  /\ SubFrame

\* WeakPtr::operator SmartPtr<U>() on handle h, isLive returning live:
\* SmartPtr<U> result; if (live) result.reset(ptr, refcount); return result
WeakPtr_toSmartPtr(M, h, live) ==
  IF live
    THEN [mem |-> SmartPtr_reset(Touch(M, h.rc), NullH, h.rc, FALSE),
          h |-> [ptr |-> h.ptr, rc |-> h.rc]]
    ELSE [mem |-> Touch(M, h.rc), h |-> NullH]

\* SmartPtr<U> s = w: the conversion, its result moved into the new variable
UpgradeNew(w, s) ==
  /\ Defined
  /\ wp[w].live
  /\ ~sp[s].live
  /\ \E live \in Refcount_isLiveReturns(Mem, wp[w].rc) :
       LET r == WeakPtr_toSmartPtr(Mem, wp[w], live)
       IN /\ SetMem(r.mem)
          /\ sp' = [sp EXCEPT ![s] = Live(r.h)]
  /\ UNCHANGED <<wp, op, shared, released>>
  /\ SubFrame

\* s = w: the conversion, then SmartPtr::operator=(SmartPtr&&) from the result
UpgradeAssign(w, s) ==
  /\ Defined
  /\ wp[w].live
  /\ sp[s].live
  /\ \E live \in Refcount_isLiveReturns(Mem, wp[w].rc) :
       LET r == WeakPtr_toSmartPtr(Mem, wp[w], live)
       IN /\ \E res \in SmartPtr_resetReturns(r.mem, sp[s], NULL) :
               SetMem(SmartPtr_reset(r.mem, sp[s], NULL, res))
          /\ sp' = [sp EXCEPT ![s] = Live(r.h)]
  /\ UNCHANGED <<wp, op, shared, released>>
  /\ SubFrame

PtrNext ==
  \/ \E o \in OwnedIds : OwnedNew(o)
  \/ \E o \in OwnedIds : OwnedNewObject(o)
  \/ \E o \in OwnedIds : OwnedDestroy(o)
  \/ \E o \in OwnedIds : OwnedClear(o)
  \/ \E s \in SmartIds : SmartNew(s)
  \/ \E s \in SmartIds, o \in OwnedIds : SmartFromOwned(s, o)
  \/ \E s, t \in SmartIds : SmartCopy(s, t)
  \/ \E s, t \in SmartIds : SmartMove(s, t)
  \/ \E s, t \in SmartIds : SmartAssign(s, t)
  \/ \E s, t \in SmartIds : SmartMoveAssign(s, t)
  \/ \E s \in SmartIds, o \in OwnedIds : SmartAssignOwned(s, o)
  \/ \E s \in SmartIds, o \in OwnedIds : SmartRelease(s, o)
  \/ \E s \in SmartIds : SmartClear(s)
  \/ \E s \in SmartIds : SmartDestroy(s)
  \/ \E w \in WeakIds : WeakNew(w)
  \/ \E w \in WeakIds : WeakFrom(w)
  \/ \E w, v \in WeakIds : WeakAssign(w, v)
  \/ \E w \in WeakIds, s \in SmartIds : WeakAssignSmart(w, s)
  \/ \E w \in WeakIds : WeakAssignNull(w)
  \/ \E w \in WeakIds : WeakDestroy(w)
  \/ \E w \in WeakIds, s \in SmartIds : UpgradeNew(w, s)
  \/ \E w \in WeakIds, s \in SmartIds : UpgradeAssign(w, s)

\* ------------------------------------------------------------ specifications

\* ------------------------------------------------------------ owned containers

Keys == 1..NKeys
EmptyMap == [k \in {} |-> NULL]

ContInit ==
  /\ els = <<>>
  /\ vec = <<>> /\ dq = <<>> /\ fq = <<>>
  /\ mp = EmptyMap
  /\ contLive = [c \in {"vec", "dq", "fq", "mp"} |-> TRUE]
  /\ held = {}
  /\ ret = <<"none", FALSE>>

ContFrame == UNCHANGED <<subVars, envVars, histVars, ptrVars>>

\* deleteEnsuringCompleteType on an element: delete NULL does nothing
DeleteEl(E, e) ==
  IF e = NULL THEN E ELSE [E EXCEPT ![e] = IF @ = 0 THEN 1 ELSE 2]

RECURSIVE DeleteAll(_, _)
\* the loops of the destructors and of clear(): every pointer stored is deleted
DeleteAll(E, ptrs) ==
  IF ptrs = <<>> THEN E ELSE DeleteAll(DeleteEl(E, Head(ptrs)), Tail(ptrs))

\* The OwnedPtr<T> arguments an insertion can be given: one made by newOwned
\* for the call, or one the caller got back from a container earlier.
Offered == held \cup (IF Len(els) < MaxElems THEN {Len(els) + 1} ELSE {})
\* OwnedPtr::releaseRaw on the argument: the element leaves the caller's hands
ElsWith(e) == IF e > Len(els) THEN Append(els, 0) ELSE els

RemoveAt(q, i) == SubSeq(q, 1, i - 1) \o SubSeq(q, i + 1, Len(q))

\* OwnedPtrVector::add
VecAdd(e) ==
  /\ contLive.vec
  /\ Len(vec) < MaxSlots
  /\ e \in Offered
  /\ vec' = Append(vec, e)
  /\ els' = ElsWith(e)
  /\ held' = held \ {e}
  /\ UNCHANGED <<dq, fq, mp, contLive, ret>>
  /\ ContFrame

OwnedPtrVector_release_KeepsPointer(v, index) == v

\* OwnedPtrVector::release(index): vec[index] = NULL, the slot stays
OwnedPtrVector_release(v, index) == [v EXCEPT ![index] = NULL]

VecRelease(index) ==
  /\ contLive.vec
  /\ index \in 1..Len(vec)
  /\ vec' = OwnedPtrVector_release(vec, index)
  /\ held' = held \cup ({vec[index]} \ {NULL})
  /\ UNCHANGED <<els, dq, fq, mp, contLive, ret>>
  /\ ContFrame

\* OwnedPtrVector::releaseBack
VecReleaseBack ==
  /\ contLive.vec
  /\ vec # <<>>
  /\ vec' = SubSeq(vec, 1, Len(vec) - 1)
  /\ held' = held \cup ({vec[Len(vec)]} \ {NULL})
  /\ UNCHANGED <<els, dq, fq, mp, contLive, ret>>
  /\ ContFrame

\* OwnedPtrVector::releaseAndShift(index)
VecReleaseAndShift(index) ==
  /\ contLive.vec
  /\ index \in 1..Len(vec)
  /\ vec' = RemoveAt(vec, index)
  /\ held' = held \cup ({vec[index]} \ {NULL})
  /\ UNCHANGED <<els, dq, fq, mp, contLive, ret>>
  /\ ContFrame

\* OwnedPtrVector::clear
VecClear ==
  /\ contLive.vec
  /\ vec # <<>>
  /\ els' = DeleteAll(els, vec)
  /\ vec' = <<>>
  /\ UNCHANGED <<dq, fq, mp, contLive, held, ret>>
  /\ ContFrame

\* OwnedPtrVector::~OwnedPtrVector
VecDestroy ==
  /\ contLive.vec
  /\ els' = DeleteAll(els, vec)
  /\ vec' = <<>>
  /\ contLive' = [contLive EXCEPT !.vec = FALSE]
  /\ UNCHANGED <<dq, fq, mp, held, ret>>
  /\ ContFrame

\* OwnedPtrDeque::pushFront
DequePushFront(e) ==
  /\ contLive.dq
  /\ e \in Offered
  /\ dq' = <<e>> \o dq
  /\ els' = ElsWith(e)
  /\ held' = held \ {e}
  /\ UNCHANGED <<vec, fq, mp, contLive, ret>>
  /\ ContFrame

\* OwnedPtrDeque::pushBack
DequePushBack(e) ==
  /\ contLive.dq
  /\ e \in Offered
  /\ dq' = Append(dq, e)
  /\ els' = ElsWith(e)
  /\ held' = held \ {e}
  /\ UNCHANGED <<vec, fq, mp, contLive, ret>>
  /\ ContFrame

\* OwnedPtrDeque::popFront
DequePopFront ==
  /\ contLive.dq
  /\ dq # <<>>
  /\ dq' = Tail(dq)
  /\ held' = held \cup {Head(dq)}
  /\ UNCHANGED <<els, vec, fq, mp, contLive, ret>>
  /\ ContFrame

\* OwnedPtrDeque::popBack
DequePopBack ==
  /\ contLive.dq
  /\ dq # <<>>
  /\ dq' = SubSeq(dq, 1, Len(dq) - 1)
  /\ held' = held \cup {dq[Len(dq)]}
  /\ UNCHANGED <<els, vec, fq, mp, contLive, ret>>
  /\ ContFrame

\* OwnedPtrDeque::releaseAndShift(index)
DequeReleaseAndShift(index) ==
  /\ contLive.dq
  /\ index \in 1..Len(dq)
  /\ dq' = RemoveAt(dq, index)
  /\ held' = held \cup {dq[index]}
  /\ UNCHANGED <<els, vec, fq, mp, contLive, ret>>
  /\ ContFrame

\* OwnedPtrDeque::clear
DequeClear ==
  /\ contLive.dq
  /\ dq # <<>>
  /\ els' = DeleteAll(els, dq)
  /\ dq' = <<>>
  /\ UNCHANGED <<vec, fq, mp, contLive, held, ret>>
  /\ ContFrame

\* OwnedPtrDeque::~OwnedPtrDeque
DequeDestroy ==
  /\ contLive.dq
  /\ els' = DeleteAll(els, dq)
  /\ dq' = <<>>
  /\ contLive' = [contLive EXCEPT !.dq = FALSE]
  /\ UNCHANGED <<vec, fq, mp, held, ret>>
  /\ ContFrame

\* OwnedPtrQueue::push
QueuePush(e) ==
  /\ contLive.fq
  /\ e \in Offered
  /\ fq' = Append(fq, e)
  /\ els' = ElsWith(e)
  /\ held' = held \ {e}
  /\ UNCHANGED <<vec, dq, mp, contLive, ret>>
  /\ ContFrame

\* OwnedPtrQueue::pop
QueuePop ==
  /\ contLive.fq
  /\ fq # <<>>
  /\ fq' = Tail(fq)
  /\ held' = held \cup {Head(fq)}
  /\ UNCHANGED <<els, vec, dq, mp, contLive, ret>>
  /\ ContFrame

\* OwnedPtrQueue::clear
QueueClear ==
  /\ contLive.fq
  /\ fq # <<>>
  /\ els' = DeleteAll(els, fq)
  /\ fq' = <<>>
  /\ UNCHANGED <<vec, dq, mp, contLive, held, ret>>
  /\ ContFrame

\* OwnedPtrQueue::~OwnedPtrQueue: clear()
QueueDestroy ==
  /\ contLive.fq
  /\ els' = DeleteAll(els, fq)
  /\ fq' = <<>>
  /\ contLive' = [contLive EXCEPT !.fq = FALSE]
  /\ UNCHANGED <<vec, dq, mp, held, ret>>
  /\ ContFrame

RECURSIVE DeleteValues(_, _, _)
\* the loops over the map: iter->second of every entry is deleted
DeleteValues(E, m, D) ==
  IF D = {} THEN E
  ELSE LET k == CHOOSE x \in D : TRUE
       IN DeleteValues(DeleteEl(E, m[k]), m, D \ {k})

\* map.insert(make_pair(key, value)) followed, in add, by the overwrite of an
\* entry that was there; in addIfNew an entry that was there stays
OwnedPtrMap_insert(m, key, value, overwrite) ==
  [x \in DOMAIN m \cup {key} |->
     IF x = key THEN (IF key \in DOMAIN m /\ ~overwrite THEN m[key] ELSE value)
     ELSE m[x]]

OwnedPtrMap_addDeletes_Nothing(m, key, value) == NULL

\* OwnedPtrMap::add, the pointer it deletes
OwnedPtrMap_addDeletes(m, key, value) ==
  IF key \in DOMAIN m THEN m[key] ELSE NULL

\* OwnedPtrMap::add; the OwnedPtr given may be empty
MapAdd(key, e) ==
  /\ contLive.mp
  /\ e \in Offered \cup {NULL}
  /\ els' = DeleteEl(ElsWith(e), OwnedPtrMap_addDeletes(mp, key, e))
  /\ mp' = OwnedPtrMap_insert(mp, key, e, TRUE)
  /\ held' = held \ {e}
  /\ UNCHANGED <<vec, dq, fq, contLive, ret>>
  /\ ContFrame

OwnedPtrMap_addIfNewDeletes_Occupant(m, key, value) ==
  IF key \in DOMAIN m THEN m[key] ELSE NULL

\* OwnedPtrMap::addIfNew, the pointer it deletes
OwnedPtrMap_addIfNewDeletes(m, key, value) ==
  IF key \in DOMAIN m THEN value ELSE NULL

\* OwnedPtrMap::addIfNew
MapAddIfNew(key, e) ==
  /\ contLive.mp
  /\ e \in Offered \cup {NULL}
  /\ els' = DeleteEl(ElsWith(e), OwnedPtrMap_addIfNewDeletes(mp, key, e))
  /\ mp' = OwnedPtrMap_insert(mp, key, e, FALSE)
  /\ held' = held \ {e}
  /\ ret' = <<"addIfNew", key \notin DOMAIN mp>>
  /\ UNCHANGED <<vec, dq, fq, contLive>>
  /\ ContFrame

\* OwnedPtrMap::release(key, output), output an empty OwnedPtr of the caller
MapRelease(key) ==
  /\ contLive.mp
  /\ IF key \in DOMAIN mp
       THEN /\ held' = held \cup ({mp[key]} \ {NULL})
            /\ mp' = [x \in DOMAIN mp \ {key} |-> mp[x]]
       ELSE UNCHANGED <<held, mp>>
  /\ UNCHANGED <<els, vec, dq, fq, contLive, ret>>
  /\ ContFrame

\* OwnedPtrMap::releaseAll(output), output the Appender of a vector of the caller
MapReleaseAll ==
  /\ contLive.mp
  /\ DOMAIN mp # {}
  /\ held' = held \cup ({mp[k] : k \in DOMAIN mp} \ {NULL})
  /\ mp' = EmptyMap
  /\ UNCHANGED <<els, vec, dq, fq, contLive, ret>>
  /\ ContFrame

\* OwnedPtrMap::erase
MapErase(key) ==
  /\ contLive.mp
  /\ IF key \in DOMAIN mp
       THEN /\ els' = DeleteEl(els, mp[key])
            /\ mp' = [x \in DOMAIN mp \ {key} |-> mp[x]]
       ELSE UNCHANGED <<els, mp>>
  /\ UNCHANGED <<vec, dq, fq, contLive, held, ret>>
  /\ ContFrame

\* OwnedPtrMap::clear
MapClear ==
  /\ contLive.mp
  /\ DOMAIN mp # {}
  /\ els' = DeleteValues(els, mp, DOMAIN mp)
  /\ mp' = EmptyMap
  /\ UNCHANGED <<vec, dq, fq, contLive, held, ret>>
  /\ ContFrame

\* OwnedPtrMap::~OwnedPtrMap
MapDestroy ==
  /\ contLive.mp
  /\ els' = DeleteValues(els, mp, DOMAIN mp)
  /\ mp' = EmptyMap
  /\ contLive' = [contLive EXCEPT !.mp = FALSE]
  /\ UNCHANGED <<vec, dq, fq, held, ret>>
  /\ ContFrame

\* OwnedPtr::~OwnedPtr of an OwnedPtr the caller got from a container
CallerDrop(e) ==
  /\ e \in held
  /\ els' = DeleteEl(els, e)
  /\ held' = held \ {e}
  /\ UNCHANGED <<vec, dq, fq, mp, contLive, ret>>
  /\ ContFrame

ContNext ==
  \/ \E e \in 1..MaxElems : VecAdd(e)
  \/ \E i \in 1..MaxSlots : VecRelease(i)
  \/ VecReleaseBack
  \/ \E i \in 1..MaxSlots : VecReleaseAndShift(i)
  \/ VecClear
  \/ VecDestroy
  \/ \E e \in 1..MaxElems : DequePushFront(e)
  \/ \E e \in 1..MaxElems : DequePushBack(e)
  \/ DequePopFront
  \/ DequePopBack
  \/ \E i \in 1..MaxElems : DequeReleaseAndShift(i)
  \/ DequeClear
  \/ DequeDestroy
  \/ \E e \in 1..MaxElems : QueuePush(e)
  \/ QueuePop
  \/ QueueClear
  \/ QueueDestroy
  \/ \E k \in Keys, e \in 0..MaxElems : MapAdd(k, e)
  \/ \E k \in Keys, e \in 0..MaxElems : MapAddIfNew(k, e)
  \/ \E k \in Keys : MapRelease(k)
  \/ MapReleaseAll
  \/ \E k \in Keys : MapErase(k)
  \/ MapClear
  \/ MapDestroy
  \/ \E e \in 1..MaxElems : CallerDrop(e)

Init == SubInit /\ PtrInit /\ ContInit

Next ==
  \/ AddArgumentText
  \/ AddArgumentFile
  \/ CaptureStdout
  \/ CaptureStderr
  \/ CaptureStdoutAndStderr
  \/ StartParent
  \/ StartForkFails
  \/ ChildExec
  \/ ChildExecFails
  \/ \E code \in ExitCodes : ChildExits(code)
  \/ \E sig \in SignalNumbers : ChildSignaled(sig)
  \/ PipeEOF
  \/ SpuriousPipeDone
  \/ ExitNotify
  \/ Destroy

Spec == Init /\ [][Next]_vars

PtrSpec == Init /\ [][PtrNext]_vars

ContSpec == Init /\ [][ContNext]_vars

\* The caller follows the protocol: configure, start once, then leave the
\* object to the notifications. The child terminates, every configured pipe
\* reports EOF and the dispatcher delivers the exit notification.
ChildStep ==
  \/ ChildExec
  \/ ChildExecFails
  \/ \E code \in ExitCodes : ChildExits(code)
  \/ \E sig \in SignalNumbers : ChildSignaled(sig)

LiveNext ==
  \/ (state = NOT_STARTED /\ AddArgumentText)
  \/ (state = NOT_STARTED /\ AddArgumentFile)
  \/ (state = NOT_STARTED /\ CaptureStdout)
  \/ (state = NOT_STARTED /\ CaptureStderr)
  \/ (state = NOT_STARTED /\ CaptureStdoutAndStderr)
  \/ (state = NOT_STARTED /\ StartParent)
  \/ (state = NOT_STARTED /\ StartForkFails)
  \/ ChildStep
  \/ PipeEOF
  \/ ExitNotify

LiveSpec ==
  /\ Init
  /\ [][LiveNext]_vars
  /\ WF_vars(ChildStep)
  /\ WF_vars(PipeEOF)
  /\ WF_vars(ExitNotify)

\* ------------------------------------------------------------------- claims

\* One successful start(), and pipeDone() called only by configured pipes.
OneRun == nStarts = 1 /\ nSpurious = 0

\* C1: the completion callback is invoked only with pipeCount zero and the
\* state EXITED or SIGNALED at the moment of invocation; after one start(), with
\* pipeDone() called by the configured pipes, it has not fired while a
\* configured pipe has yet to report EOF or the exit notification is pending.
C1_CallbackOnlyWhenDrainedAndExited ==
  /\ \A i \in 1..Len(calls) : calls[i].pipeCount = 0 /\ calls[i].state \in Terminal
  /\ (OneRun /\ calls # <<>>) => (pipesOpen = 0 /\ watch = "delivered")

C1_Witness ==
  OneRun /\ configured = 2 /\ Len(calls) = 1

C3_CallbackEventuallyOnce ==
  /\ (state = RUNNING) ~> (Len(calls) = 1)
  /\ [](Len(calls) <= 1)
  /\ []((configured = 0 /\ delivered = <<EXITED, 0>>)
          => (/\ Len(calls) = 1
              /\ calls[1].tag = "exited" /\ calls[1].value = 0 /\ calls[1].by = "done"))

C3_Witness ==
  configured = 0 /\ delivered = <<EXITED, 0>> /\ Len(calls) = 1

\* C4: for a fixed number of configured pipes and a fixed exit notification,
\* whatever the order of the pipeDone() calls and the notification, the run ends
\* in one final state and the callback got the tag and the value delivered.
AllDelivered == OneRun /\ pipesOpen = 0 /\ watch = "delivered"

C4_OrderIndependentOutcome ==
  AllDelivered =>
    /\ state = delivered[1]
    /\ exitStatusOrSignalNumber = delivered[2]
    /\ pipeCount = 0
    /\ canceler = FALSE
    /\ pid = NoPid
    /\ finalCallback = NULL
    /\ Len(calls) = 1
    /\ calls[1].tag = (IF delivered[1] = EXITED THEN "exited" ELSE "signaled")
    /\ calls[1].value = delivered[2]

\* the exit notification came first, the last pipe's EOF invoked the callback
C4_Witness ==
  AllDelivered /\ configured = 2 /\ delivered[1] = SIGNALED /\ calls[1].by = "pipeDone"

\* C5: once the state is EXITED or SIGNALED no operation changes it, and the
\* state only moves NOT_STARTED -> RUNNING -> EXITED | SIGNALED.
C5_TerminalIsFinal ==
  [][ /\ (state \in Terminal => state' = state)
      /\ (state = NOT_STARTED => state' \in {NOT_STARTED, RUNNING})
      /\ (state = RUNNING => state' \in {RUNNING, EXITED, SIGNALED}) ]_vars

C7_DestroyWhileRunning ==
  (destroyed = "caller" /\ state = RUNNING) =>
    /\ dtorPath
    /\ watch = "cancelled"
    /\ child = "reaped"
    /\ \A i \in 1..Len(calls) : calls[i].cb # nStarts

C7_Witness ==
  destroyed = "caller" /\ state = RUNNING /\ childStatus = <<SIGNALED, SIGKILL>>

\* C8: over copy, assign, move, clear and drop of shared handles (no handle was
\* released to an exclusive one), the object put under shared ownership is
\* deleted at most once, and it has been deleted exactly when no SmartPtr
\* points at it any more.
C8_DestroyedOnceAtLastDrop ==
  released = {} =>
    \A p \in 1..Len(objs) :
      /\ objs[p] <= 1
      /\ p \in shared => ((objs[p] = 1) <=> (Holders(p) = 0))

\* the last holder dropped while another, empty SmartPtr and a WeakPtr remain
C8_Witness ==
  /\ released = {} /\ shared = {1} /\ objs = <<1>>
  /\ \E s \in SmartIds : sp[s].live
  /\ \E w \in WeakIds : wp[w].live /\ wp[w].ptr = 1

Upgrades(w, s) == UpgradeNew(w, s) \/ UpgradeAssign(w, s)

\* C9: a WeakPtr upgrade yields an empty handle when no SmartPtr holds the
\* object, and a handle to the object, with strong one higher, when one does;
\* it never yields a handle to a deleted object.
C9_UpgradeFollowsStrongHolders ==
  [][\A w \in WeakIds, s \in SmartIds :
       (Upgrades(w, s) /\ ~ub') =>
         LET p == wp[w].ptr
             r == wp[w].rc
         IN /\ (p = NULL \/ Holders(p) = 0) => sp'[s].ptr = NULL
            /\ (p # NULL /\ Holders(p) >= 1) =>
                 /\ sp'[s].ptr = p
                 /\ blocks'[r].strong =
                      blocks[r].strong + 1 - (IF sp[s].live /\ sp[s].rc = r THEN 1 ELSE 0)
            /\ sp'[s].ptr # NULL => objs[sp'[s].ptr] = 0
    ]_vars

\* SmartPtr::release on s returned true: it took one strong count off the block
ReleaseSucceeded(s) ==
  sp[s].rc # NULL /\ blocks'[sp[s].rc].strong = blocks[sp[s].rc].strong - 1

\* C10: SmartPtr::release succeeds iff exactly one SmartPtr holds the object,
\* and once it has succeeded no WeakPtr to that object upgrades to a non-empty
\* handle.
C10_ReleaseIsExclusive ==
  [][ /\ \A s \in SmartIds, o \in OwnedIds :
           (SmartRelease(s, o) /\ ~ub') =>
             (ReleaseSucceeded(s) <=> (sp[s].ptr # NULL /\ Holders(sp[s].ptr) = 1))
      /\ \A w \in WeakIds, s \in SmartIds :
           (Upgrades(w, s) /\ ~ub' /\ wp[w].rc \in released) => sp'[s].ptr = NULL
    ]_vars

\* C11: SmartPtr::release called on an empty handle, or while another SmartPtr
\* holds the object, returns false and changes nothing: not the counters, the
\* handle, the object or the OwnedPtr it was to fill.
C11_FailedReleaseHasNoEffect ==
  [][\A s \in SmartIds, o \in OwnedIds :
       (/\ SmartRelease(s, o)
        /\ ~ub'
        /\ (sp[s].ptr = NULL \/ Holders(sp[s].ptr) >= 2))
       => UNCHANGED <<sp, wp, op, blocks, objs>>
    ]_vars

\* live handles, shared and weak, whose refcount field is block r
HandlesOn(r) ==
  {<<"sp", s>> : s \in {x \in SmartIds : sp[x].live /\ sp[x].rc = r}}
    \cup {<<"wp", w>> : w \in {x \in WeakIds : wp[x].live /\ wp[x].rc = r}}

\* C12: a refcount block is deleted only with strong and weak both zero, is not
\* deleted while a WeakPtr refers to it, and has been deleted once every
\* SmartPtr and WeakPtr on it is gone.
C12_BlockLifetime ==
  \A r \in 1..Len(blocks) :
    /\ blocks[r].freed => (blocks[r].strong = 0 /\ blocks[r].weak = 0)
    /\ (\E w \in WeakIds : wp[w].live /\ wp[w].rc = r) => ~blocks[r].freed
    /\ HandlesOn(r) = {} => blocks[r].freed

\* elements the containers hold
Contained ==
  ({vec[i] : i \in 1..Len(vec)} \cup {dq[i] : i \in 1..Len(dq)}
     \cup {fq[i] : i \in 1..Len(fq)} \cup {mp[k] : k \in DOMAIN mp}) \ {NULL}

\* C13: for the four owned containers, over insertions, releases, clear() and
\* destruction: no element is destroyed twice, an element a container holds is
\* alive, an element handed out by a release operation is not destroyed by the
\* container, and every element that neither a container nor the caller holds
\* any more has been destroyed (once).
C13_ElementsDestroyedOnce ==
  \A e \in 1..Len(els) :
    /\ els[e] <= 1
    /\ e \in Contained => els[e] = 0
    /\ e \in held => els[e] = 0
    /\ (e \notin Contained /\ e \notin held) => els[e] = 1

\* all four containers destroyed: an element released earlier survives in the
\* caller's hands, another one was destroyed
C13_Witness ==
  /\ \A c \in DOMAIN contLive : ~contLive[c]
  /\ held # {}
  /\ \E e \in 1..Len(els) : els[e] = 1

\* C14: every release operation of a container, by index, front, back or key,
\* hands the element to the caller and removes the slot or entry: the size goes
\* down by one.
C14_ReleaseRemovesSlot ==
  [][ /\ \A i \in 1..MaxSlots :
           VecRelease(i) => (Len(vec') = Len(vec) - 1 /\ vec[i] \in held' \cup {NULL})
      /\ \A i \in 1..MaxSlots :
           VecReleaseAndShift(i) => (Len(vec') = Len(vec) - 1 /\ vec[i] \in held' \cup {NULL})
      /\ VecReleaseBack => (Len(vec') = Len(vec) - 1 /\ vec[Len(vec)] \in held' \cup {NULL})
      /\ DequePopFront => (Len(dq') = Len(dq) - 1 /\ Head(dq) \in held')
      /\ DequePopBack => (Len(dq') = Len(dq) - 1 /\ dq[Len(dq)] \in held')
      /\ \A i \in 1..MaxElems :
           DequeReleaseAndShift(i) => (Len(dq') = Len(dq) - 1 /\ dq[i] \in held')
      /\ QueuePop => (Len(fq') = Len(fq) - 1 /\ Head(fq) \in held')
      /\ \A k \in Keys :
           (MapRelease(k) /\ k \in DOMAIN mp) =>
             (DOMAIN mp' = DOMAIN mp \ {k} /\ mp[k] \in held' \cup {NULL})
    ]_vars

\* C20: OwnedPtrMap::add on an occupied key destroys the occupant and stores
\* the value; addIfNew on an occupied key returns false, destroys the value and
\* keeps the occupant; on an absent key both store the value, addIfNew
\* returning true. The keys stay unique, nothing else is destroyed, and every
\* value the map holds is alive.
C20_MapInsertion ==
  /\ [](\A k \in DOMAIN mp : mp[k] # NULL => els[mp[k]] = 0)
  /\ [][\A k \in Keys, e \in 0..MaxElems :
          /\ MapAdd(k, e) =>
               /\ DOMAIN mp' = DOMAIN mp \cup {k}
               /\ mp'[k] = e
               /\ e # NULL => els'[e] = 0
               /\ \A x \in 1..Len(els) :
                    els'[x] = IF k \in DOMAIN mp /\ mp[k] = x THEN els[x] + 1 ELSE els[x]
          /\ MapAddIfNew(k, e) =>
               IF k \in DOMAIN mp
                 THEN /\ ret' = <<"addIfNew", FALSE>>
                      /\ mp' = mp
                      /\ e # NULL => els'[e] = 1
                      /\ \A x \in 1..Len(els) :
                           els'[x] = IF x = e THEN els[x] + 1 ELSE els[x]
                 ELSE /\ ret' = <<"addIfNew", TRUE>>
                      /\ DOMAIN mp' = DOMAIN mp \cup {k}
                      /\ mp'[k] = e
                      /\ e # NULL => els'[e] = 0
                      /\ \A x \in 1..Len(els) : els'[x] = els[x]
       ]_vars

\* addIfNew was refused on an occupied key: the occupant is in the map, the
\* value offered is destroyed
C20_Witness ==
  /\ ret = <<"addIfNew", FALSE>>
  /\ \E k \in DOMAIN mp : mp[k] # NULL
  /\ \E e \in 1..Len(els) : els[e] = 1

\* C15: when fork() fails in start(), OsError is thrown (counted in
\* nForkFails) and nothing else happens: state, pipeCount, the callback handle,
\* the canceler and the exit watch are as before and no child exists; a
\* Subprocess that was never started successfully stays NOT_STARTED with no
\* callback adopted or invoked.
C15_ForkFailureChangesNothing ==
  /\ [](nStarts = 0 =>
          (/\ state = NOT_STARTED /\ canceler = FALSE /\ finalCallback = NULL
           /\ watch = "none" /\ child = "none" /\ calls = <<>>))
  /\ [][StartForkFails =>
          (/\ nForkFails' = nForkFails + 1
           /\ pid' = NoPid
           /\ UNCHANGED <<state, pipeCount, finalCallback, canceler, watch, child, calls>>
           /\ UNCHANGED <<stdoutPipe, stderrPipe, stdoutAndStderrPipe>>)]_vars

\* fork() failed with both pipes configured
C15_Witness ==
  nForkFails = 1 /\ nStarts = 0 /\ state = NOT_STARTED /\ pid = NoPid /\ stdoutPipe /\ stderrPipe

\* C16: a child whose exec fails terminates with status 1; the parent is
\* notified of a normal exit, reaches EXITED with value 1 and, the pipes
\* drained, invokes the callback with exited(1). With no argument recorded
\* exec cannot succeed, so a normal exit then always carries 1.
C16_ExecFailureExitsWithOne ==
  /\ [][ChildExecFails =>
          (child' = "zombie" /\ childStatus' = <<EXITED, ExecFailStatus>>)]_vars
  /\ []((args = <<>> /\ delivered[1] = EXITED) =>
          (/\ state = EXITED
           /\ exitStatusOrSignalNumber = ExecFailStatus
           /\ \A i \in 1..Len(calls) :
                calls[i].tag = "exited" /\ calls[i].value = ExecFailStatus))
  /\ (child = "zombie" /\ childStatus = <<EXITED, ExecFailStatus>>)
       ~> (/\ state = EXITED /\ exitStatusOrSignalNumber = ExecFailStatus
           /\ Len(calls) = 1
           /\ calls[1].tag = "exited" /\ calls[1].value = ExecFailStatus)

\* no argument was recorded, exec failed, a pipe was drained after the exit
\* notification and the callback got exited(1)
C16_Witness ==
  /\ args = <<>> /\ configured = 1 /\ state = EXITED
  /\ Len(calls) = 1 /\ calls[1].by = "pipeDone"
  /\ calls[1].tag = "exited" /\ calls[1].value = ExecFailStatus

\* C17: either exit notification makes done() set the terminal state, store the
\* value delivered, empty the canceler, set pid to -1 and release the disk
\* references, leaving pipeCount alone; a callback invoked in the same call
\* sees all of that.
C17_DoneFrame ==
  [][ExitNotify =>
       (/\ state' = childStatus[1] /\ state' \in Terminal
        /\ exitStatusOrSignalNumber' = childStatus[2]
        /\ canceler' = FALSE
        /\ pid' = NoPid
        /\ diskRefs' = 0
        /\ pipeCount' = pipeCount
        /\ calls' # calls =>
             LET c == calls'[Len(calls')]
             IN /\ c.by = "done" /\ c.state = childStatus[1]
                /\ c.value = childStatus[2] /\ c.pipeCount = pipeCount)]_vars

\* the child was signaled with a pipe still pending: disk references released,
\* no callback yet
C17_Witness ==
  /\ watch = "delivered" /\ delivered[1] = SIGNALED /\ state = SIGNALED
  /\ pipesOpen > 0 /\ pipeCount > 0 /\ calls = <<>>
  /\ refsAdded > 0 /\ diskRefs = 0 /\ canceler = FALSE /\ pid = NoPid

\* C18 as stated: after a successful start() the state is RUNNING, pipeCount
\* equals the number of bindings configured at the call, the three bindings
\* are empty, the callback is stored and a canceler for a watch on the child's
\* pid is held.
C18_StartCountsBindings ==
  [][StartParent =>
       (/\ state' = RUNNING
        /\ pipeCount' = Bindings
        /\ ~stdoutPipe' /\ ~stderrPipe' /\ ~stdoutAndStderrPipe'
        /\ finalCallback' # NULL
        /\ canceler' /\ watch' = "registered" /\ pid' # NoPid)]_vars

\* C18 as amended: start() adds the number of bindings configured at the call
\* to pipeCount (so pipeCount equals it when the counter was zero before).
C18_StartAddsBindings ==
  [][StartParent =>
       (/\ state' = RUNNING
        /\ pipeCount' = pipeCount + Bindings
        /\ ~stdoutPipe' /\ ~stderrPipe' /\ ~stdoutAndStderrPipe'
        /\ finalCallback' # NULL
        /\ canceler' /\ watch' = "registered" /\ pid' # NoPid)]_vars

\* a second start() on a counter that was not zero
C18_Witness ==
  /\ nStarts = 2 /\ state = RUNNING /\ canceler /\ finalCallback = 2
  /\ configured = 1 /\ pipeCount = 2 /\ Bindings = 0

\* C19: while the state is RUNNING every disk reference obtained by
\* addArgument(File*, usage) is still held, and disk references are released
\* only by the exit notification or by the destruction of the Subprocess, with
\* no child left running.
C19_DiskRefsHeldWhileRunning ==
  /\ []((state = RUNNING /\ destroyed = "no") => diskRefs = refsAdded)
  /\ [][diskRefs' < diskRefs =>
          (ExitNotify \/ (Destroy /\ child' \notin {"forked", "program"}))]_vars

\* C21: in pipeDone() and done() the invocation and release of the completion
\* callback come last: the values the callback was invoked on are the values
\* the fields have when the operation ends, the canceler is empty at the
\* release, and a Subprocess deleted by the release runs a destructor that
\* cancels, kills and waits for nothing.
CallbackReleased ==
  destroyed = "no" /\ finalCallback # NULL /\ finalCallback' = NULL /\ calls' # calls

C21_CallbackReleaseIsLast ==
  [][CallbackReleased =>
       LET c == calls'[Len(calls')]
       IN /\ c.pipeCount = pipeCount' /\ c.state = state'
          /\ c.value = exitStatusOrSignalNumber'
          /\ canceler' = FALSE
          /\ dtorPath' = dtorPath
          /\ watch' # "cancelled" /\ childStatus' = childStatus
          /\ child' \in {child, "reaped"}
          /\ (child' # child => c.by = "done")]_vars

\* the last pipeDone() released the callback and that deleted the Subprocess,
\* whose destructor skipped the cancel / kill / waitpid path
C21_Witness ==
  /\ destroyed = "callback" /\ ~dtorPath /\ finalCallback = NULL
  /\ Len(calls) = 1 /\ calls[1].by = "pipeDone" /\ calls[1].tag = "signaled"
  /\ watch = "delivered" /\ child = "reaped"

\* C22: while the Subprocess exists, the canceler is non-empty exactly when
\* the state is RUNNING and pid is a child's pid (not -1) exactly when the
\* state is RUNNING; the destructor takes its cancel / kill / waitpid path
\* exactly when the Subprocess is destroyed in state RUNNING (the state it has
\* when the destructor runs).
C22_CancelerAndPidFollowState ==
  /\ [](destroyed = "no" =>
          (/\ canceler <=> state = RUNNING
           /\ pid # NoPid <=> state = RUNNING))
  /\ [][destroyed' # destroyed =>
          ((dtorPath' /\ ~dtorPath) <=> state' = RUNNING)]_vars

\* C23: for every refcount block that has not been deleted, strong is the
\* number of SmartPtr variables whose refcount field refers to it and weak is
\* the number of WeakPtr variables referring to it; neither is ever negative.
StrongHandles(r) == {s \in SmartIds : sp[s].live /\ sp[s].rc = r}
WeakHandles(r) == {w \in WeakIds : wp[w].live /\ wp[w].rc = r}

C23_CountersMatchHandles ==
  Defined =>
    \A r \in 1..Len(blocks) :
      ~blocks[r].freed =>
        /\ blocks[r].strong = Cardinality(StrongHandles(r))
        /\ blocks[r].weak = Cardinality(WeakHandles(r))
        /\ blocks[r].strong >= 0 /\ blocks[r].weak >= 0

\* C24: every SmartPtr and WeakPtr with a non-null refcount field refers to a
\* block that has not been deleted, so that no operation, which reaches a
\* block only through such a field, reads or writes a deleted block.
C24_NoHandleOnDeletedBlock ==
  /\ \A s \in SmartIds : (sp[s].live /\ sp[s].rc # NULL) => ~blocks[sp[s].rc].freed
  /\ \A w \in WeakIds : (wp[w].live /\ wp[w].rc # NULL) => ~blocks[wp[w].rc].freed
  /\ Defined

====
